---- MODULE Spec2Model ----
(***************************************************************************)
(* Model of launcher.Run (src/README.md:83-234): the pop-launcher plugin   *)
(* protocol loop.  Three kinds of threads are modelled:                    *)
(*   - the reader goroutine, which scans stdin into the requests channel,  *)
(*   - the main loop, which ranges over requests and dispatches commands,  *)
(*   - one search goroutine per accepted Search command.                   *)
(* Every step that touches shared state (a mutex, a channel, the context,  *)
(* lastResults, stdout) is an action of its own.                           *)
(***************************************************************************)
EXTENDS Integers, Sequences, FiniteSets, TLC

\* ------------------------------------------------------------------ bounds

\* Number of lines the driver writes on stdin in one session.
MaxLines == 3
\* Number of results the Search Provider hands to appendResult in one search.
MaxResults == 2
\* Number of lines the driver writes in one session of the stand-alone
\* program when the store holds more than maxResults entries.
MaxLinesLarge == 2

\* ------------------------------------------------------- program constants

\* Capacity of the requests channel: make(chan string, 64).
RequestsCap == 64
\* Width of Go's int on the build the plugin ships for (linux/amd64).
IntBits == 64
\* 2^16: a uint32 is kept as two 16 bit halves, value = hi * Half + lo.
Half == 65536

\* ----------------------------------------------------------- input lines

LExit == "\"Exit\""
LInterrupt == "\"Interrupt\""
LSearch == "{\"Search\":\"q\"}"
LSearchA == "{\"Search\":\"gp A\"}"
LSearchAll == "{\"Search\":\"\"}"
LActivate0 == "{\"Activate\":0}"
LActivate1 == "{\"Activate\":1}"
LActivate2 == "{\"Activate\":2}"
LActivateMax == "{\"Activate\":4294967295}"
LComplete == "{\"Complete\":0}"
LContext == "{\"Context\":0}"
LInvalid == "not valid json at all"

\* The lines the driver may send.
InputLines ==
    {LExit, LInterrupt, LSearch, LActivate0, LActivate1, LActivate2,
     LActivateMax, LComplete, LContext, LInvalid}

\* The names the provider hands to appendResult: the engine never looks into a
\* name, so the k-th result of the n-th search carries a name of its own.
ResultNames ==
    << <<"A1", "B1", "C1", "D1">>, <<"A2", "B2", "C2", "D2">>,
       <<"A3", "B3", "C3", "D3">>, <<"A4", "B4", "C4", "D4">>,
       <<"A5", "B5", "C5", "D5">> >>

U32(h, l) == [hi |-> h, lo |-> l]

Cmd(t, q, u) == [type |-> t, query |-> q, index |-> u]

NoCmd == Cmd("None", "", U32(0, 0))

\* What the main loop makes of one line: the two sentinels are compared after
\* strings.TrimSpace, everything else goes through json.Unmarshal into
\* request{Search *string; Activate, Complete, Context *uint32} and the
\* switch on req.Search != nil, req.Activate != nil, default.
Decode(line) ==
    CASE line = LExit -> Cmd("Exit", "", U32(0, 0))
      [] line = LInterrupt -> Cmd("Interrupt", "", U32(0, 0))
      [] line = LSearch -> Cmd("Search", "q", U32(0, 0))
      [] line = LSearchA -> Cmd("Search", <<"g", "p", " ", "A">>, U32(0, 0))
      [] line = LSearchAll -> Cmd("Search", <<>>, U32(0, 0))
      [] line = LActivate0 -> Cmd("Activate", "", U32(0, 0))
      [] line = LActivate1 -> Cmd("Activate", "", U32(0, 1))
      [] line = LActivate2 -> Cmd("Activate", "", U32(0, 2))
      [] line = LActivateMax -> Cmd("Activate", "", U32(Half - 1, Half - 1))
      [] line = LComplete -> Cmd("Unhandled", "", U32(0, 0))
      [] line = LContext -> Cmd("Unhandled", "", U32(0, 0))
      [] OTHER -> Cmd("Bad", "", U32(0, 0))

\* int(u) narrowed to a 32 bit int: the upper half of the range goes negative.
ToInt32(u) == [neg |-> u.hi >= Half \div 2, hi |-> u.hi, lo |-> u.lo]

\* id := int(*req.Activate): a uint32 converted to Go's int.  With a 64 bit int
\* every uint32 keeps its value.
ToInt(u) ==
    IF IntBits = 64 THEN [neg |-> FALSE, hi |-> u.hi, lo |-> u.lo] ELSE ToInt32(u)

\* id < len(lastResults); a Go slice is far shorter than 2^16 here.
InRange(i, table) == i.neg \/ (i.hi = 0 /\ i.lo < Len(table))

\* ----------------------------------------------------------------- Config

\* A Config: Stdin, Stdout and Logger are "nil" or a value the caller supplies;
\* OnSearch and OnActivate are set or nil.  isNil is the nil *Config receiver.
Config(isNil, stdin, stdout, logger, onSearch, onActivate) ==
    [isNil |-> isNil, Stdin |-> stdin, Stdout |-> stdout, Logger |-> logger,
     OnSearch |-> onSearch, OnActivate |-> onActivate]

NilConfig == Config(TRUE, "nil", "nil", "nil", FALSE, FALSE)

\* The values a caller may put into Stdin, Stdout or Logger.
Supplied == {"nil", "custom1", "custom2"}

\* Every Config LoadConfig is tried on.
Configs ==
    {NilConfig} \cup
    {Config(FALSE, i, o, l, s, a) :
        i \in Supplied, o \in Supplied, l \in Supplied,
        s \in BOOLEAN, a \in BOOLEAN}

\* The Configs Run is started with: the streams and the logger are the
\* caller's, each callback is there or missing.
RunConfigs ==
    {Config(FALSE, "custom1", "custom1", "custom1", s, a) :
        s \in BOOLEAN, a \in BOOLEAN}

Loaded(l, stdin, stdout, err) ==
    [l |-> l, stdin |-> stdin, stdout |-> stdout, err |-> err]

NotLoaded == Loaded("nil", "nil", "nil", "")

\* stdin := c.Stdin; if stdin == nil { stdin = os.Stdin }, and the like.
OrDefault(v, default) == IF v = "nil" THEN default ELSE v

\* LoadConfig that looks for OnActivate before OnSearch.
LoadConfigActivateFirst(c) ==
    IF c.isNil THEN Loaded("io.Discard", "nil", "nil", "config is nil")
    ELSE IF ~c.OnActivate
    THEN Loaded(OrDefault(c.Logger, "io.Discard"), "nil", "nil",
                "config OnActivate callback is required")
    ELSE IF ~c.OnSearch
    THEN Loaded(OrDefault(c.Logger, "io.Discard"), "nil", "nil",
                "config OnSearch callback is required")
    ELSE Loaded(OrDefault(c.Logger, "io.Discard"), OrDefault(c.Stdin, "os.Stdin"),
                OrDefault(c.Stdout, "os.Stdout"), "")

\* LoadConfig that does not ask for OnActivate.
LoadConfigNoActivateCheck(c) ==
    IF c.isNil THEN Loaded("io.Discard", "nil", "nil", "config is nil")
    ELSE IF ~c.OnSearch
    THEN Loaded(OrDefault(c.Logger, "io.Discard"), "nil", "nil",
                "config OnSearch callback is required")
    ELSE Loaded(OrDefault(c.Logger, "io.Discard"), OrDefault(c.Stdin, "os.Stdin"),
                OrDefault(c.Stdout, "os.Stdout"), "")

\* func (c *Config) LoadConfig() (*log.Logger, io.Reader, io.Writer, error):
\* the logger defaults to one that discards; a nil receiver, a missing
\* OnSearch and a missing OnActivate are errors, found in that order; Stdin
\* and Stdout default to os.Stdin and os.Stdout.
LoadConfig(c) ==
    IF c.isNil THEN Loaded("io.Discard", "nil", "nil", "config is nil")
    ELSE IF ~c.OnSearch
    THEN Loaded(OrDefault(c.Logger, "io.Discard"), "nil", "nil",
                "config OnSearch callback is required")
    ELSE IF ~c.OnActivate
    THEN Loaded(OrDefault(c.Logger, "io.Discard"), "nil", "nil",
                "config OnActivate callback is required")
    ELSE Loaded(OrDefault(c.Logger, "io.Discard"), OrDefault(c.Stdin, "os.Stdin"),
                OrDefault(c.Stdout, "os.Stdout"), "")

\* ------------------------------------------------------------------ state

VARIABLES
    cfg,           \* the Config handed to Run or LoadConfig
    loaded,        \* what LoadConfig returned: l, stdin, stdout, err
    logged,        \* the error Run wrote to the logger before the loop
    provider,      \* cfg.OnSearch: one of Providers, "none" when it is nil,
                   \* "gopass" for the callback of main
    requests,      \* the lines buffered in the requests channel, oldest first
    scanned,       \* the lines scanner.Text() has returned so far, in order
    sending,       \* the line the reader has scanned and not yet sent, if any
    closed,        \* close(requests) has run
    pc,            \* where the main loop is
    cur,           \* the command the main loop is handling
    wasSearching,  \* Interrupt's local
    id,            \* Activate's local
    entry,         \* Activate's local
    searchCancel,  \* 0 is nil, else the search task whose context it cancels
    searchDone,    \* 0 is nil, else the search task whose done channel it is
    lastResults,   \* the Result Table
    outputMu,      \* holder of outputMu: -1 free, 0 main loop, n search task n
    resultsMu,     \* holder of resultsMu
    tasks,         \* the search goroutines ever started, in start order
    out,           \* the lines written to stdout
    handled,       \* the kinds of the commands the main loop has taken so far
    searchCalls,   \* the queries cfg.OnSearch was invoked with
    activateCalls, \* the entries cfg.OnActivate was invoked with, and its result
    midLine,       \* the thread that wrote a payload and not yet its newline
    outAtStart,    \* Len(out) when the main loop took cur
    callsAtStart,  \* Len(activateCalls) when the main loop took cur
    aliveAtStart,  \* a search task was alive when the main loop took cur
    gpLines,       \* the lines of the output of gopass ls -flat
    allEntries,    \* main's map from lower-cased entry name to entry name
    gpQuery,       \* the query the gopass OnSearch callback was called with
    lowerQuery,    \* its local lowerQuery
    count,         \* its local count
    ctxErr,        \* ctx.Err() != nil: the search's context is cancelled
    gpPc,          \* where the gopass OnSearch callback is
    order,         \* the order in which range allEntries hands out the keys
    pos,           \* the position of the range loop in order
    results,       \* the names handed to appendResult, in call order
    resultsAtCancel, \* Len(results) when the context was cancelled
    unvisited      \* where a store is given by kinds of keys only: how many
                   \* keys of each kind the range has not yet handed out

vars ==
    <<cfg, loaded, logged, provider, requests, scanned, sending, closed, pc, cur, wasSearching, id, entry,
      searchCancel, searchDone, lastResults, outputMu, resultsMu, tasks, out,
      handled, searchCalls, activateCalls, midLine, outAtStart, callsAtStart, aliveAtStart,
      gpLines, allEntries, gpQuery, lowerQuery, count, ctxErr, gpPc, order, pos,
      results, resultsAtCancel, unvisited>>

mainVars ==
    <<pc, cur, wasSearching, id, entry, handled, outAtStart, callsAtStart,
      aliveAtStart>>
readerVars == <<requests, scanned, sending, closed>>
cfgVars == <<cfg, loaded, logged>>
gpVars ==
    <<gpLines, allEntries, gpQuery, lowerQuery, count, ctxErr, gpPc, order, pos,
      results, resultsAtCancel, unvisited>>
handleVars == <<searchCancel, searchDone>>
callVars == <<searchCalls, activateCalls>>
lockVars == <<outputMu, resultsMu>>
outVars == <<out, midLine>>

Free == -1
MainThread == 0

NoInt == [neg |-> FALSE, hi |-> 0, lo |-> 0]

\* uint32(n) for a length n.
ToUint32(n) == U32((n \div Half) % Half, n % Half)

\* A line of output: who wrote it, what it is, and for an Append its id and name.
Line(by, kind, n, name) == [by |-> by, kind |-> kind, id |-> n, name |-> name]

\* respondRaw(s) once outputMu is held: fmt.Fprintln(stdout, s), one Write call.
RawLine(by, kind) == Line(by, kind, U32(0, 0), "")

\* A search goroutine is alive from `go func` until close(done).
Alive(t) == ~tasks[t].done

AliveTasks == {t \in 1..Len(tasks) : Alive(t)}

\* Everything but the Config and the provider, as Run finds it.
InitRun ==
    /\ loaded = NotLoaded
    /\ logged = ""
    /\ requests = <<>>
    /\ scanned = <<>>
    /\ sending = <<>>
    /\ closed = FALSE
    /\ pc = "Load"
    /\ cur = NoCmd
    /\ wasSearching = FALSE
    /\ id = NoInt
    /\ entry = ""
    /\ searchCancel = 0
    /\ searchDone = 0
    /\ lastResults = <<>>
    /\ outputMu = Free
    /\ resultsMu = Free
    /\ tasks = <<>>
    /\ out = <<>>
    /\ handled = <<>>
    /\ searchCalls = <<>>
    /\ activateCalls = <<>>
    /\ midLine = Free
    /\ outAtStart = 0
    /\ callsAtStart = 0
    /\ aliveAtStart = FALSE

\* The locals of the gopass OnSearch callback before it is called.
InitOnSearch ==
    /\ allEntries = <<>>
    /\ gpQuery = <<>>
    /\ lowerQuery = <<>>
    /\ count = 0
    /\ ctxErr = FALSE
    /\ order = <<>>
    /\ pos = 0
    /\ results = <<>>
    /\ resultsAtCancel = 0

\* A store without keys.
NoKeys == [exact |-> 0, matching |-> 0, other |-> 0]

\* The gopass callbacks are not part of the run: Run is given the providers
\* below.
GpIdle ==
    /\ gpLines = <<>>
    /\ gpPc = "Idle"
    /\ unvisited = NoKeys
    /\ InitOnSearch

\* The OnSearch callbacks tried: "free" appends up to MaxResults results and
\* returns when it likes, with or without an error; "blocking" waits for
\* <-ctx.Done() and returns ctx.Err(); "stuck" never looks at ctx and never
\* returns.
Providers == {"free", "blocking", "stuck"}

\* Run(cfg) is entered; a Config with OnSearch carries one of the providers.
Init ==
    /\ cfg \in RunConfigs
    /\ provider \in IF cfg.OnSearch THEN Providers ELSE {"none"}
    /\ InitRun
    /\ GpIdle

\* Run: l, stdin, stdout, err := cfg.LoadConfig(); on an error it is logged
\* and Run returns, else the reader goroutine is started and the loop entered.
RunLoad ==
    /\ pc = "Load"
    /\ loaded' = LoadConfig(cfg)
    /\ IF loaded'.err # ""
       THEN /\ logged' = "ERROR: invalid launcher config"
            /\ pc' = "Returned"
       ELSE /\ logged' = logged
            /\ pc' = "Recv"
    /\ UNCHANGED <<cfg, gpVars, provider, readerVars, cur, wasSearching, id, entry,
                   handled, outAtStart, callsAtStart, aliveAtStart, handleVars,
                   lastResults, lockVars, tasks, outVars, callVars>>

\* The reader goroutine runs once Run has got past LoadConfig.
ReaderStarted == pc # "Load" /\ loaded.err = ""

\* ------------------------------------------------------- reader goroutine

\* scanner.Scan() returned true: scanner.Text() is the next line of stdin.
ReadLine ==
    /\ ReaderStarted
    /\ ~closed
    /\ sending = <<>>
    /\ Len(scanned) < MaxLines
    /\ \E line \in InputLines :
          /\ scanned' = Append(scanned, line)
          /\ sending' = <<line>>
    /\ UNCHANGED <<cfgVars, gpVars, provider, requests, closed, mainVars, handleVars,
                   lastResults, lockVars, tasks, outVars, callVars>>

\* A reader that sends each line from a goroutine of its own: a line may
\* overtake the lines sent before it.
SendLineUnordered ==
    /\ sending # <<>>
    /\ Len(requests) < RequestsCap
    /\ \E k \in 0..Len(requests) :
          requests' = SubSeq(requests, 1, k) \o sending
                      \o SubSeq(requests, k + 1, Len(requests))
    /\ sending' = <<>>
    /\ UNCHANGED <<cfgVars, gpVars, provider, scanned, closed, mainVars, handleVars,
                   lastResults, lockVars, tasks, outVars, callVars>>

\* requests <- scanner.Text(): the send waits while the channel is full; a
\* channel hands its values on in the order they were sent.
SendLine ==
    /\ sending # <<>>
    /\ Len(requests) < RequestsCap
    /\ requests' = Append(requests, sending[1])
    /\ sending' = <<>>
    /\ UNCHANGED <<cfgVars, gpVars, provider, scanned, closed, mainVars, handleVars,
                   lastResults, lockVars, tasks, outVars, callVars>>

\* scanner.Scan() returned false: close(requests).
ReadEOF ==
    /\ ReaderStarted
    /\ ~closed
    /\ sending = <<>>
    /\ closed' = TRUE
    /\ UNCHANGED <<cfgVars, gpVars, provider, requests, scanned, sending, mainVars, handleVars,
                   lastResults, lockVars, tasks, outVars, callVars>>

\* --------------------------------------------------------------- main loop

\* for line := range requests: the main loop takes the next line.
Take(type) ==
    /\ pc = "Recv"
    /\ requests # <<>>
    /\ requests' = Tail(requests)
    /\ LET line == Head(requests) IN
          /\ Decode(line).type = type
          /\ handled' = Append(handled, type)
          /\ cur' = Decode(line)
    /\ outAtStart' = Len(out)
    /\ callsAtStart' = Len(activateCalls)
    /\ aliveAtStart' = (AliveTasks # {})
    /\ UNCHANGED <<cfgVars, gpVars, provider, closed, scanned, sending, id, entry, handleVars, lastResults,
                   lockVars, tasks, outVars, callVars>>

\* wasSearching taken to be true whether or not a search was started.
WasSearchingAlways == TRUE

\* wasSearching := searchCancel != nil
WasSearching == searchCancel # 0

\* trimmed == `"Exit"`: on to cancelSearch().
RecvExit ==
    /\ Take("Exit")
    /\ pc' = "Cancel"
    /\ UNCHANGED wasSearching

\* trimmed == `"Interrupt"`: wasSearching is read, then cancelSearch().
RecvInterrupt ==
    /\ Take("Interrupt")
    /\ wasSearching' = WasSearching
    /\ pc' = "Cancel"

\* A parse error that ends the loop instead of going on with it.
RecvBadReturns ==
    /\ Take("Bad")
    /\ pc' = "Returned"
    /\ UNCHANGED wasSearching

\* json.Unmarshal failed: logged, continue.
RecvBad ==
    /\ Take("Bad")
    /\ pc' = "Recv"
    /\ UNCHANGED wasSearching

\* switch default: logged as unhandled.
RecvUnhandled ==
    /\ Take("Unhandled")
    /\ pc' = "Recv"
    /\ UNCHANGED wasSearching

\* A Search that starts its task without cancelSearch().
RecvSearchNoCancel ==
    /\ Take("Search")
    /\ pc' = "Spawn"
    /\ UNCHANGED wasSearching

\* case req.Search != nil: on to cancelSearch().
RecvSearch ==
    /\ Take("Search")
    /\ pc' = "Cancel"
    /\ UNCHANGED wasSearching

\* An Activate that looks its index up without cancelSearch().
RecvActivateNoCancel ==
    /\ Take("Activate")
    /\ pc' = "Activate"
    /\ UNCHANGED wasSearching

\* case req.Activate != nil: on to cancelSearch().
RecvActivate ==
    /\ Take("Activate")
    /\ pc' = "Cancel"
    /\ UNCHANGED wasSearching

\* The range loop ends: requests is closed and drained, Run returns.
RecvClosed ==
    /\ pc = "Recv"
    /\ requests = <<>>
    /\ closed
    /\ pc' = "Returned"
    /\ UNCHANGED <<cfgVars, gpVars, provider, readerVars, cur, wasSearching, id, entry, handled,
                   outAtStart, callsAtStart, aliveAtStart, handleVars, lastResults, lockVars,
                   tasks, outVars, callVars>>

\* Interrupt answers with its own Finished whatever wasSearching says.
InterruptRepliesAlways(ws) == TRUE

\* if !wasSearching { respondRaw(`"Finished"`) }
InterruptReplies(ws) == ~ws

\* Where each handler goes on once cancelSearch() has returned.
AfterCancel ==
    CASE cur.type = "Exit" -> "ExitFinished"
      [] cur.type = "Interrupt" ->
            IF InterruptReplies(wasSearching) THEN "InterruptFinished" ELSE "Recv"
      [] cur.type = "Search" -> "Spawn"
      [] OTHER -> "Activate"

\* cancelSearch() with searchCancel == nil: nothing to do.
CancelNone ==
    /\ pc = "Cancel"
    /\ searchCancel = 0
    /\ pc' = AfterCancel
    /\ UNCHANGED <<cfgVars, gpVars, provider, readerVars, cur, wasSearching, id, entry, handled,
                   outAtStart, callsAtStart, aliveAtStart, handleVars, lastResults, lockVars,
                   tasks, outVars, callVars>>

\* cancelSearch(): searchCancel() cancels the task's context.
CancelSignal ==
    /\ pc = "Cancel"
    /\ searchCancel # 0
    /\ tasks' = [tasks EXCEPT ![searchCancel].ctxDone = TRUE]
    /\ pc' = "Join"
    /\ UNCHANGED <<cfgVars, gpVars, provider, readerVars, cur, wasSearching, id, entry, handled,
                   outAtStart, callsAtStart, aliveAtStart, handleVars, lastResults, lockVars,
                   outVars, callVars>>

\* cancelSearch() that does not wait for the task.
JoinReadyNoWait == TRUE

\* cancelSearch() that gives a cancelled task up when it is still inside the
\* provider.
JoinReadyOrAbandoned ==
    tasks[searchDone].done \/ tasks[searchDone].pc = "OnSearch"

\* <-searchDone: a receive on the task's done channel, ready once it is closed.
JoinReady == tasks[searchDone].done

\* cancelSearch(): <-searchDone returns; searchCancel = nil; searchDone = nil.
Join ==
    /\ pc = "Join"
    /\ JoinReady
    /\ searchCancel' = 0
    /\ searchDone' = 0
    /\ pc' = AfterCancel
    /\ UNCHANGED <<cfgVars, gpVars, provider, readerVars, cur, wasSearching, id, entry, handled,
                   outAtStart, callsAtStart, aliveAtStart, lastResults, lockVars, tasks,
                   outVars, callVars>>

\* respondRaw(s) by the main loop: outputMu.Lock(), the line is written by one
\* Write call, the deferred outputMu.Unlock().
MainRespondRaw(from, kind, to) ==
    /\ pc = from
    /\ outputMu = Free
    /\ out' = Append(out, RawLine(MainThread, kind))
    /\ pc' = to
    /\ UNCHANGED <<cfgVars, gpVars, provider, readerVars, cur, wasSearching, id, entry, handled,
                   outAtStart, callsAtStart, aliveAtStart, handleVars, lastResults, lockVars,
                   tasks, midLine, callVars>>

\* Exit that answers and then goes on with the loop.
ExitFinishedContinue == MainRespondRaw("ExitFinished", "Finished", "Recv")

\* Exit: defer respondRaw(`"Finished"`); return.
ExitFinished == MainRespondRaw("ExitFinished", "Finished", "Returned")

\* Interrupt with no search: respondRaw(`"Finished"`); continue.
InterruptFinished == MainRespondRaw("InterruptFinished", "Finished", "Recv")

\* A fresh search goroutine, about to run respondRaw(`"Clear"`).
NewTask(query) ==
    [pc |-> "Clear", ctxDone |-> FALSE, done |-> FALSE, matched |-> <<>>,
     query |-> query, sr |-> "", err |-> FALSE]

\* Search: ctx, cancel := context.WithCancel(...); searchCancel = cancel;
\* searchDone = done; go func(ctx, query) {...}.
Spawn ==
    /\ pc = "Spawn"
    /\ tasks' = Append(tasks, NewTask(cur.query))
    /\ searchCancel' = Len(tasks) + 1
    /\ searchDone' = Len(tasks) + 1
    /\ pc' = "Recv"
    /\ UNCHANGED <<cfgVars, gpVars, provider, readerVars, cur, wasSearching, id, entry, handled,
                   outAtStart, callsAtStart, aliveAtStart, lastResults, lockVars, outVars,
                   callVars>>

\* The table read from its end.
LookupReversed(table, i) == table[Len(table) - i.lo]

\* lastResults[id]
Lookup(table, i) == table[i.lo + 1]

\* Activate, id < len(lastResults): id := int(*req.Activate);
\* resultsMu.Lock(); entry = lastResults[id]; resultsMu.Unlock().
\* A negative id passes the test and the index expression panics, with
\* resultsMu still held.
ActInRange ==
    /\ pc = "Activate"
    /\ resultsMu = Free
    /\ id' = ToInt(cur.index)
    /\ InRange(id', lastResults)
    /\ IF id'.neg
       THEN /\ pc' = "Panic"
            /\ resultsMu' = MainThread
            /\ UNCHANGED entry
       ELSE /\ entry' = Lookup(lastResults, id')
            /\ pc' = "ActCall"
            /\ UNCHANGED resultsMu
    /\ UNCHANGED <<cfgVars, gpVars, provider, readerVars, cur, wasSearching, handled,
                   outAtStart, callsAtStart, aliveAtStart, handleVars, lastResults, outputMu,
                   tasks, outVars, callVars>>

\* An out of range Activate that goes on without resultsMu.Unlock().
ActOutOfRangeKeepsLock ==
    /\ pc = "Activate"
    /\ resultsMu = Free
    /\ id' = ToInt(cur.index)
    /\ ~InRange(id', lastResults)
    /\ resultsMu' = MainThread
    /\ pc' = "ActClose"
    /\ UNCHANGED <<cfgVars, gpVars, provider, readerVars, cur, wasSearching, entry, handled,
                   outAtStart, callsAtStart, aliveAtStart, handleVars, lastResults, outputMu,
                   tasks, outVars, callVars>>

\* Activate, else branch: resultsMu.Lock(); the index is logged as out of
\* range; resultsMu.Unlock(); on to respondRaw(`"Close"`); continue.
ActOutOfRange ==
    /\ pc = "Activate"
    /\ resultsMu = Free
    /\ id' = ToInt(cur.index)
    /\ ~InRange(id', lastResults)
    /\ pc' = "ActClose"
    /\ UNCHANGED <<cfgVars, gpVars, provider, readerVars, cur, wasSearching, entry, handled,
                   outAtStart, callsAtStart, aliveAtStart, handleVars, lastResults, lockVars,
                   tasks, outVars, callVars>>

\* Activate whose handler error skips the reply.
ActCallErrorSkipsClose ==
    /\ pc = "ActCall"
    /\ \E failed \in BOOLEAN :
          /\ activateCalls' = Append(activateCalls, [entry |-> entry, err |-> failed])
          /\ pc' = IF failed THEN "Recv" ELSE "ActClose"
    /\ UNCHANGED <<cfgVars, gpVars, provider, readerVars, cur, wasSearching, id, entry, handled,
                   outAtStart, callsAtStart, aliveAtStart, handleVars, lastResults,
                   lockVars, tasks, outVars, searchCalls>>

\* Activate that empties lastResults once the handler has run.
ActCallClearsTable ==
    /\ pc = "ActCall"
    /\ \E failed \in BOOLEAN :
          activateCalls' = Append(activateCalls, [entry |-> entry, err |-> failed])
    /\ lastResults' = <<>>
    /\ pc' = "ActClose"
    /\ UNCHANGED <<cfgVars, gpVars, provider, readerVars, cur, wasSearching, id, entry, handled,
                   outAtStart, callsAtStart, aliveAtStart, handleVars, lockVars,
                   tasks, outVars, searchCalls>>

\* Activate: cfg.OnActivate(entry) runs and returns nil or an error, which is
\* logged.
ActCall ==
    /\ pc = "ActCall"
    /\ \E failed \in BOOLEAN :
          activateCalls' = Append(activateCalls, [entry |-> entry, err |-> failed])
    /\ pc' = "ActClose"
    /\ UNCHANGED <<cfgVars, gpVars, provider, readerVars, cur, wasSearching, id, entry, handled,
                   outAtStart, callsAtStart, aliveAtStart, handleVars, lastResults, lockVars,
                   tasks, outVars, searchCalls>>

\* Activate: respondRaw(`"Close"`).
ActClose == MainRespondRaw("ActClose", "Close", "Recv")

\* -------------------------------------------------------- search goroutine

taskFrame ==
    <<cfgVars, gpVars, provider, readerVars, mainVars, handleVars>>

\* respondRaw(s) by search task t: outputMu.Lock(), the line is written by one
\* Write call, the deferred outputMu.Unlock().
TaskRespondRaw(t, from, kind, to) ==
    /\ tasks[t].pc = from
    /\ outputMu = Free
    /\ out' = Append(out, RawLine(t, kind))
    /\ tasks' = [tasks EXCEPT ![t].pc = to]
    /\ UNCHANGED <<taskFrame, lastResults, lockVars, midLine, callVars>>

\* respondRaw(`"Clear"`)
TClear(t) == TaskRespondRaw(t, "Clear", "Clear", "CallOnSearch")

\* cfg.OnSearch(ctx, query, appendResult) is entered.
TCallOnSearch(t) ==
    /\ tasks[t].pc = "CallOnSearch"
    /\ searchCalls' = Append(searchCalls, tasks[t].query)
    /\ tasks' = [tasks EXCEPT ![t].pc = "OnSearch"]
    /\ UNCHANGED <<taskFrame, lastResults, lockVars, outVars, activateCalls>>

\* The provider calls appendResult(sr) with sr.Name = name.
TProvAppend(t) ==
    /\ tasks[t].pc = "OnSearch"
    /\ provider = "free"
    /\ Len(tasks[t].matched) < MaxResults
    /\ tasks' = [tasks EXCEPT ![t].sr = ResultNames[t][Len(tasks[t].matched) + 1],
                              ![t].pc = "AppendData"]
    /\ UNCHANGED <<taskFrame, lastResults, lockVars, outVars, callVars>>

\* ID: uint32(len(matched)) numbered from one.
AppendIDFromOne(matched) == ToUint32(Len(matched) + 1)

\* ID: uint32(len(matched))
AppendID(matched) == ToUint32(Len(matched))

\* respond that writes its line without taking outputMu.
TAppendDataNoLock(t) ==
    /\ tasks[t].pc = "AppendData"
    /\ out' = Append(out, Line(t, "Append", AppendID(tasks[t].matched), tasks[t].sr))
    /\ midLine' = t
    /\ tasks' = [tasks EXCEPT ![t].pc = "AppendNL"]
    /\ UNCHANGED <<taskFrame, lastResults, outputMu, resultsMu, callVars>>

\* appendResult: respond(appendResponse{...}): outputMu.Lock(), then
\* stdout.Write(data), the marshalled Append line.
TAppendData(t) ==
    /\ tasks[t].pc = "AppendData"
    /\ outputMu = Free
    /\ outputMu' = t
    /\ out' = Append(out, Line(t, "Append", AppendID(tasks[t].matched), tasks[t].sr))
    /\ midLine' = t
    /\ tasks' = [tasks EXCEPT ![t].pc = "AppendNL"]
    /\ UNCHANGED <<taskFrame, lastResults, resultsMu, callVars>>

\* respond: stdout.Write("\n"), the deferred outputMu.Unlock(), and back in
\* appendResult matched = append(matched, sr.Name).
TAppendNL(t) ==
    /\ tasks[t].pc = "AppendNL"
    /\ outputMu = t
    /\ midLine' = Free
    /\ outputMu' = Free
    /\ tasks' = [tasks EXCEPT ![t].matched = Append(@, tasks[t].sr),
                              ![t].pc = "OnSearch"]
    /\ UNCHANGED <<taskFrame, lastResults, resultsMu, out, callVars>>

\* cfg.OnSearch returns nil or an error (which is logged).  The blocking
\* provider returns ctx.Err() once <-ctx.Done() is ready.
TProvReturn(t) ==
    /\ tasks[t].pc = "OnSearch"
    /\ provider # "stuck"
    /\ \E failed \in BOOLEAN :
          /\ provider = "blocking" => (tasks[t].ctxDone /\ failed)
          /\ tasks' = [tasks EXCEPT ![t].err = failed, ![t].pc = "Publish"]
    /\ UNCHANGED <<taskFrame, lastResults, lockVars, outVars, callVars>>

\* A search that closes done as soon as it has published, ahead of its
\* Finished.
TPublishClosesDone(t) ==
    /\ tasks[t].pc = "Publish"
    /\ resultsMu = Free
    /\ lastResults' = tasks[t].matched
    /\ tasks' = [tasks EXCEPT ![t].pc = "Finished", ![t].done = TRUE]
    /\ UNCHANGED <<taskFrame, lockVars, outVars, callVars>>

\* A search without results that leaves the earlier lastResults in place.
TPublishUnlessEmpty(t) ==
    /\ tasks[t].pc = "Publish"
    /\ resultsMu = Free
    /\ lastResults' = IF tasks[t].matched = <<>> THEN lastResults
                      ELSE tasks[t].matched
    /\ tasks' = [tasks EXCEPT ![t].pc = "Finished"]
    /\ UNCHANGED <<taskFrame, lockVars, outVars, callVars>>

\* A search that publishes and returns without resultsMu.Unlock().
TPublishKeepsLock(t) ==
    /\ tasks[t].pc = "Publish"
    /\ resultsMu = Free
    /\ lastResults' = tasks[t].matched
    /\ resultsMu' = t
    /\ tasks' = [tasks EXCEPT ![t].pc = "Finished"]
    /\ UNCHANGED <<taskFrame, outputMu, outVars, callVars>>

\* resultsMu.Lock(); lastResults = matched; resultsMu.Unlock()
TPublish(t) ==
    /\ tasks[t].pc = "Publish"
    /\ resultsMu = Free
    /\ lastResults' = tasks[t].matched
    /\ tasks' = [tasks EXCEPT ![t].pc = "Finished"]
    /\ UNCHANGED <<taskFrame, lockVars, outVars, callVars>>

\* A cancelled search that ends without its Finished.
TFinishedUnlessCancelled(t) ==
    IF tasks[t].ctxDone
    THEN /\ tasks[t].pc = "Finished"
         /\ tasks' = [tasks EXCEPT ![t].pc = "CloseDone"]
         /\ UNCHANGED <<taskFrame, lastResults, lockVars, outVars, callVars>>
    ELSE TaskRespondRaw(t, "Finished", "Finished", "CloseDone")

\* defer respondRaw(`"Finished"`)
TFinished(t) == TaskRespondRaw(t, "Finished", "Finished", "CloseDone")

\* defer close(done); the goroutine is gone and its locals with it.
TCloseDone(t) ==
    /\ tasks[t].pc = "CloseDone"
    /\ tasks' = [tasks EXCEPT ![t] = [NewTask(tasks[t].query) EXCEPT
                                        !.pc = "Dead", !.done = TRUE,
                                        !.ctxDone = tasks[t].ctxDone]]
    /\ UNCHANGED <<taskFrame, lastResults, lockVars, outVars, callVars>>

\* ------------------------------------------------------------ specification

Reader == ReadLine \/ SendLine \/ ReadEOF

Main ==
    \/ RunLoad
    \/ RecvExit \/ RecvInterrupt \/ RecvBad \/ RecvUnhandled \/ RecvSearch
    \/ RecvActivate \/ RecvClosed
    \/ CancelNone \/ CancelSignal \/ Join
    \/ ExitFinished \/ InterruptFinished
    \/ Spawn \/ ActInRange \/ ActOutOfRange \/ ActCall \/ ActClose

Task(t) ==
    \/ TClear(t) \/ TCallOnSearch(t)
    \/ TProvAppend(t) \/ TAppendData(t) \/ TAppendNL(t) \/ TProvReturn(t)
    \/ TPublish(t) \/ TFinished(t) \/ TCloseDone(t)

Next == Reader \/ Main \/ \E t \in 1..Len(tasks) : Task(t)

Spec == Init /\ [][Next]_vars

\* The goroutines are scheduled fairly: the reader, the main loop and every
\* search task each take a step when they can go on.  At most MaxLines
\* searches are ever started.
Fairness ==
    /\ WF_vars(Reader)
    /\ WF_vars(Main)
    /\ \A t \in 1..MaxLines : WF_vars(t <= Len(tasks) /\ Task(t))

SpecFair == Spec /\ Fairness

\* LoadConfig on its own, as its callers and tests use it: any Config, the
\* nil one included.
InitConfig ==
    /\ cfg \in Configs
    /\ provider = "none"
    /\ InitRun
    /\ GpIdle

\* l, stdin, stdout, err := cfg.LoadConfig()
CallLoadConfig ==
    /\ pc = "Load"
    /\ loaded' = LoadConfig(cfg)
    /\ pc' = "Loaded"
    /\ UNCHANGED <<cfg, logged, gpVars, provider, readerVars, cur, wasSearching, id,
                   entry, handled, outAtStart, callsAtStart, aliveAtStart,
                   handleVars, lastResults, lockVars, tasks, outVars, callVars>>

NextConfig == CallLoadConfig

SpecConfig == InitConfig /\ [][NextConfig]_vars

\* ------------------------------------------------- the gopass OnSearch

\* Strings the provider looks into are sequences of one-letter strings.

\* const maxResults = 19
maxResults == 19

\* strings.ToLower on one letter.
LowerChar(c) ==
    CASE c = "A" -> "a"
      [] c = "B" -> "b"
      [] c = "C" -> "c"
      [] OTHER -> c

\* strings.ToLower
ToLower(str) == [i \in 1..Len(str) |-> LowerChar(str[i])]

\* strings.HasPrefix
HasPrefix(str, prefix) ==
    Len(str) >= Len(prefix) /\ SubSeq(str, 1, Len(prefix)) = prefix

\* strings.TrimPrefix
TrimPrefix(str, prefix) ==
    IF HasPrefix(str, prefix) THEN SubSeq(str, Len(prefix) + 1, Len(str))
    ELSE str

\* strings.Contains
Contains(str, substr) ==
    \E i \in 0..(Len(str) - Len(substr)) :
        SubSeq(str, i + 1, i + Len(substr)) = substr

\* The prefix "gp " the launcher's users put before a query.
GpPrefix == <<"g", "p", " ">>

\* The outputs of gopass ls -flat tried, line by line: an empty one (or a
\* failed gopass), names that differ in case only, a blank line, four names
\* of which some hold others, and names with the "gp " prefix in them.
LineSets ==
    {<<>>,
     <<<<"A", "b">>, <<"b">>, <<>>, <<"a", "B">>>>,
     <<<<"a">>, <<"b", "a">>, <<"c">>, <<"a", "b", "c">>>>,
     <<<<"g", "p", " ", "a">>, <<"A">>, <<"g", "p">>>>}

\* The queries tried: empty, the bare prefix, exact names with and without
\* prefix and capitals, a prefix without its space, and one nothing holds.
Queries ==
    {<<>>, GpPrefix, <<"a">>, <<"g", "p", " ", "A">>, <<"A", "b">>,
     <<"g", "p">>, <<"c", "c">>}

\* The lower-cased names of the lines that are not empty, each once, in the
\* order of their first line.
RECURSIVE KeySeq(_)
KeySeq(lines) ==
    IF lines = <<>> THEN <<>>
    ELSE LET front == KeySeq(SubSeq(lines, 1, Len(lines) - 1))
             lower == ToLower(lines[Len(lines)])
         IN IF lines[Len(lines)] = <<>> \/ \E i \in 1..Len(front) : front[i] = lower
            THEN front
            ELSE Append(front, lower)

\* loadEntries: entries[strings.ToLower(line)] = line for every line that is
\* not empty; a later line with the same lower-cased name replaces an earlier
\* one.
LoadEntries(lines) ==
    LET named == {i \in 1..Len(lines) : lines[i] # <<>>}
        keys == {ToLower(lines[i]) : i \in named}
        last(k) == CHOOSE i \in named :
                      /\ ToLower(lines[i]) = k
                      /\ \A j \in named : ToLower(lines[j]) = k => j <= i
    IN [k \in keys |-> lines[last(k)]]

\* for lower, original := range allEntries: the order of a map range is not
\* specified, the keys may come in any order.
Orders(keys) ==
    {[i \in 1..Len(keys) |-> keys[f[i]]] :
        f \in {g \in [1..Len(keys) -> 1..Len(keys)] :
                  \A i, j \in 1..Len(keys) : g[i] = g[j] => i = j}}

\* lowerQuery == "" || strings.Contains(lower, lowerQuery)
Matches(lower, q) == q = <<>> \/ Contains(lower, q)

\* main: a store is there and gopass ls has not yet been run.
InitProvider ==
    /\ cfg \in {c \in RunConfigs : c.OnSearch /\ c.OnActivate}
    /\ provider = "gopass"
    /\ InitRun
    /\ gpLines \in LineSets
    /\ gpPc = "Load"
    /\ unvisited = NoKeys
    /\ InitOnSearch

\* The launcher's own variables, which the callback does not touch.
runVars ==
    <<cfgVars, provider, readerVars, mainVars, handleVars, lastResults,
      lockVars, tasks, outVars, callVars>>

\* allEntries := loadEntries()
GpLoad ==
    /\ gpPc = "Load"
    /\ allEntries' = LoadEntries(gpLines)
    /\ gpPc' = "Loaded"
    /\ UNCHANGED runVars
    /\ UNCHANGED <<unvisited, gpLines, gpQuery, lowerQuery, count, ctxErr, order, pos,
                   results, resultsAtCancel>>

\* OnSearch is called: query = strings.TrimPrefix(query, "gp ");
\* lowerQuery := strings.ToLower(query); count := 0.
GpStart ==
    /\ gpPc = "Loaded"
    /\ \E q \in Queries :
          /\ gpQuery' = q
          /\ lowerQuery' = ToLower(TrimPrefix(q, GpPrefix))
    /\ count' = 0
    /\ gpPc' = "Exact"
    /\ UNCHANGED runVars
    /\ UNCHANGED <<unvisited, gpLines, allEntries, ctxErr, order, pos, results,
                   resultsAtCancel>>

\* if exactMatch, ok := allEntries[lowerQuery]; ok { appendResult(...) },
\* and the range over allEntries begins in one of its orders.
GpExact ==
    /\ gpPc = "Exact"
    /\ results' = IF lowerQuery \in DOMAIN allEntries
                  THEN Append(results, allEntries[lowerQuery])
                  ELSE results
    /\ order' \in Orders(KeySeq(gpLines))
    /\ pos' = 1
    /\ gpPc' = "Range"
    /\ UNCHANGED runVars
    /\ UNCHANGED <<unvisited, gpLines, allEntries, gpQuery, lowerQuery, count, ctxErr,
                   resultsAtCancel>>

\* The loop body without its ctx.Err() check.
GpIterNoCtxCheck ==
    /\ gpPc = "Range"
    /\ IF pos > Len(order)
       THEN gpPc' = "AfterLoop" /\ pos' = pos
       ELSE IF order[pos] = lowerQuery
       THEN gpPc' = "Range" /\ pos' = pos + 1
       ELSE IF Matches(order[pos], lowerQuery)
       THEN gpPc' = "Append" /\ pos' = pos
       ELSE gpPc' = "Range" /\ pos' = pos + 1
    /\ UNCHANGED runVars
    /\ UNCHANGED <<unvisited, gpLines, allEntries, gpQuery, lowerQuery, count, ctxErr,
                   order, results, resultsAtCancel>>

\* The loop body without the skip of the exact match.
GpIterNoSkip ==
    /\ gpPc = "Range"
    /\ IF pos > Len(order)
       THEN gpPc' = "AfterLoop" /\ pos' = pos
       ELSE IF ctxErr
       THEN gpPc' = "ReturnedCtxErr" /\ pos' = pos
       ELSE IF Matches(order[pos], lowerQuery)
       THEN gpPc' = "Append" /\ pos' = pos
       ELSE gpPc' = "Range" /\ pos' = pos + 1
    /\ UNCHANGED runVars
    /\ UNCHANGED <<unvisited, gpLines, allEntries, gpQuery, lowerQuery, count, ctxErr,
                   order, results, resultsAtCancel>>

\* One turn of for lower, original := range allEntries, up to the call of
\* appendResult: the range is over (on to return nil); lower == lowerQuery
\* (continue); ctx.Err() != nil (return ctx.Err()); the name matches (on to
\* appendResult) or does not (next turn).
GpIter ==
    /\ gpPc = "Range"
    /\ IF pos > Len(order)
       THEN gpPc' = "AfterLoop" /\ pos' = pos
       ELSE IF order[pos] = lowerQuery
       THEN gpPc' = "Range" /\ pos' = pos + 1
       ELSE IF ctxErr
       THEN gpPc' = "ReturnedCtxErr" /\ pos' = pos
       ELSE IF Matches(order[pos], lowerQuery)
       THEN gpPc' = "Append" /\ pos' = pos
       ELSE gpPc' = "Range" /\ pos' = pos + 1
    /\ UNCHANGED runVars
    /\ UNCHANGED <<unvisited, gpLines, allEntries, gpQuery, lowerQuery, count, ctxErr,
                   order, results, resultsAtCancel>>

\* appendResult(...); count++; if count >= maxResults { break }: the loop is
\* left, the callback has not yet returned.
GpAppend ==
    /\ gpPc = "Append"
    /\ results' = Append(results, allEntries[order[pos]])
    /\ count' = count + 1
    /\ IF count' >= maxResults
       THEN gpPc' = "AfterLoop" /\ pos' = pos
       ELSE gpPc' = "Range" /\ pos' = pos + 1
    /\ UNCHANGED runVars
    /\ UNCHANGED <<unvisited, gpLines, allEntries, gpQuery, lowerQuery, ctxErr, order,
                   resultsAtCancel>>

\* The launcher cancels the search's context: at any time from the start of
\* the search goroutine (before OnSearch is called) until OnSearch returns.
GpCancel ==
    /\ gpPc \in {"Loaded", "Exact", "Range", "Append", "AfterLoop"}
    /\ ~ctxErr
    /\ ctxErr' = TRUE
    /\ resultsAtCancel' = Len(results)
    /\ UNCHANGED runVars
    /\ UNCHANGED <<unvisited, gpLines, allEntries, gpQuery, lowerQuery, count, gpPc,
                   order, pos, results>>

\* return nil after the loop, left by the end of the range or by the break:
\* the context is not read again.
GpReturn ==
    /\ gpPc = "AfterLoop"
    /\ gpPc' = "ReturnedNil"
    /\ UNCHANGED runVars
    /\ UNCHANGED <<unvisited, gpLines, allEntries, gpQuery, lowerQuery, count,
                   ctxErr, order, pos, results, resultsAtCancel>>

NextProvider ==
    GpLoad \/ GpStart \/ GpExact \/ GpIter \/ GpAppend \/ GpReturn \/ GpCancel

SpecProvider == InitProvider /\ [][NextProvider]_vars

\* ------------------------------------ the gopass OnSearch on large stores

\* What the callback does with a key of allEntries depends only on whether
\* the key is lowerQuery ("exact"), is another key that the filter lets
\* through ("matching") or is one it does not ("other").  Here a store and a
\* query are given by how many keys of each kind there are, which allows
\* stores of more than maxResults entries with the range handing the keys
\* out in any order; a result is written as the kind of its key.

\* The most keys of kind "other" in a store.
MaxOther == 1

\* The stores: the key that is lowerQuery is there or not, up to
\* maxResults + 1 further keys match, up to MaxOther do not.
KindStores ==
    [exact : 0..1, matching : 0..(maxResults + 1), other : 0..MaxOther]

\* main has loaded a store and the launcher has started a search goroutine.
InitKinds ==
    /\ cfg \in {c \in RunConfigs : c.OnSearch /\ c.OnActivate}
    /\ provider = "gopass"
    /\ InitRun
    /\ gpLines = <<>>
    /\ gpPc = "Loaded"
    /\ unvisited \in KindStores
    /\ InitOnSearch

\* OnSearch is called: count := 0.
KindStart ==
    /\ gpPc = "Loaded"
    /\ count' = 0
    /\ gpPc' = "Exact"
    /\ UNCHANGED runVars
    /\ UNCHANGED <<unvisited, gpLines, allEntries, gpQuery, lowerQuery, ctxErr,
                   order, pos, results, resultsAtCancel>>

\* if exactMatch, ok := allEntries[lowerQuery]; ok { appendResult(...) }:
\* a lookup, the range has not yet begun.
KindExact ==
    /\ gpPc = "Exact"
    /\ results' = IF unvisited.exact > 0 THEN Append(results, "exact")
                  ELSE results
    /\ gpPc' = "Range"
    /\ UNCHANGED runVars
    /\ UNCHANGED <<unvisited, gpLines, allEntries, gpQuery, lowerQuery, count,
                   ctxErr, order, pos, resultsAtCancel>>

\* One turn of for lower, original := range allEntries, up to the call of
\* appendResult: the range is over (on to return nil), or it hands out a key of
\* any kind still there: lower == lowerQuery (continue); ctx.Err() != nil
\* (return ctx.Err()); the key matches (on to appendResult) or does not
\* (next turn).
KindIter ==
    /\ gpPc = "Range"
    /\ IF unvisited = NoKeys
       THEN gpPc' = "AfterLoop" /\ unvisited' = unvisited
       ELSE \E kind \in {"exact", "matching", "other"} :
              /\ unvisited[kind] > 0
              /\ unvisited' = [unvisited EXCEPT ![kind] = @ - 1]
              /\ gpPc' = IF kind = "exact" THEN "Range"
                         ELSE IF ctxErr THEN "ReturnedCtxErr"
                         ELSE IF kind = "matching" THEN "Append"
                         ELSE "Range"
    /\ UNCHANGED runVars
    /\ UNCHANGED <<gpLines, allEntries, gpQuery, lowerQuery, count, ctxErr,
                   order, pos, results, resultsAtCancel>>

\* appendResult(...); count++; if count >= maxResults { break }: the loop is
\* left, the callback has not yet returned.
KindAppend ==
    /\ gpPc = "Append"
    /\ results' = Append(results, "matching")
    /\ count' = count + 1
    /\ gpPc' = IF count' >= maxResults THEN "AfterLoop" ELSE "Range"
    /\ UNCHANGED runVars
    /\ UNCHANGED <<unvisited, gpLines, allEntries, gpQuery, lowerQuery, ctxErr,
                   order, pos, resultsAtCancel>>

NextKinds ==
    KindStart \/ KindExact \/ KindIter \/ KindAppend \/ GpReturn \/ GpCancel

SpecProviderKinds == InitKinds /\ [][NextKinds]_vars

\* ------------------------------------------------- the stand-alone program

\* The stand-alone main carries the loop of Run in itself: the same reader
\* goroutine, the same requests channel, cancelSearch, locks and replies,
\* with the search written into the goroutine and gopass show in the place
\* of the handler.  Its entries are a slice, in the order of the lines of
\* gopass ls.

\* Letters for the names of a large store.
Letters == <<"a", "b", "c", "d", "e">>

\* gopass ls output of more than maxResults names, all of them with an a.
ManyLines ==
    [i \in 1..(maxResults + 2) |->
        <<"a", Letters[((i - 1) \div Len(Letters)) + 1],
               Letters[((i - 1) % Len(Letters)) + 1]>>]

\* The lines the driver may send to the stand-alone program.
StandaloneLines ==
    {LExit, LInterrupt, LSearchA, LSearchAll, LActivate0, LActivateMax,
     LComplete, LInvalid}

\* The number of lines of a session on the store at hand.
StandaloneMaxLines ==
    IF Len(gpLines) > maxResults THEN MaxLinesLarge ELSE MaxLines

\* loadEntries: one entry{original, lower} for each line that is not empty,
\* in the order of the lines.
LoadEntriesSlice(lines) ==
    LET NotEmpty(l) == l # <<>>
        kept == SelectSeq(lines, NotEmpty)
    IN [i \in 1..Len(kept) |->
           [original |-> kept[i], lower |-> ToLower(kept[i])]]

\* main is entered: a store is there and gopass ls has not yet been run.
InitStandalone ==
    /\ cfg \in {c \in RunConfigs : c.OnSearch /\ c.OnActivate}
    /\ provider = "standalone"
    /\ InitRun
    /\ gpLines \in LineSets \cup {ManyLines}
    /\ gpPc = "Idle"
    /\ unvisited = NoKeys
    /\ InitOnSearch

\* main up to its loop: allEntries := loadEntries(), the handles are nil, the
\* requests channel is made and the reader goroutine started.
StandaloneLoad ==
    /\ pc = "Load"
    /\ allEntries' = LoadEntriesSlice(gpLines)
    /\ pc' = "Recv"
    /\ UNCHANGED <<cfgVars, provider, readerVars, cur, wasSearching, id, entry,
                   handled, outAtStart, callsAtStart, aliveAtStart, handleVars,
                   lastResults, lockVars, tasks, outVars, callVars>>
    /\ UNCHANGED <<gpLines, gpQuery, lowerQuery, count, ctxErr, gpPc, order, pos,
                   results, resultsAtCancel, unvisited>>

\* scanner.Scan() returned true: scanner.Text() is the next line of stdin.
StandaloneReadLine ==
    /\ ReaderStarted
    /\ ~closed
    /\ sending = <<>>
    /\ Len(scanned) < StandaloneMaxLines
    /\ \E line \in StandaloneLines :
          /\ scanned' = Append(scanned, line)
          /\ sending' = <<line>>
    /\ UNCHANGED <<cfgVars, gpVars, provider, requests, closed, mainVars, handleVars,
                   lastResults, lockVars, tasks, outVars, callVars>>

\* requests <- scanner.Text()
StandaloneSendLine == SendLine

\* scanner.Scan() returned false: close(requests).
StandaloneReadEOF == ReadEOF

\* trimmed == `"Exit"`: on to cancelSearch().
StandaloneRecvExit == RecvExit

\* trimmed == `"Interrupt"`: wasSearching is read, then cancelSearch().
StandaloneRecvInterrupt == RecvInterrupt

\* json.Unmarshal failed: logged, continue.
StandaloneRecvBad == RecvBad

\* switch default: logged as unhandled.
StandaloneRecvUnhandled == RecvUnhandled

\* case req.Search != nil: on to cancelSearch().
StandaloneRecvSearch == RecvSearch

\* case req.Activate != nil: on to cancelSearch().
StandaloneRecvActivate == RecvActivate

\* The range loop ends: requests is closed and drained, main returns.
StandaloneRecvClosed == RecvClosed

\* cancelSearch() with searchCancel == nil: nothing to do.
StandaloneCancelNone == CancelNone

\* cancelSearch(): searchCancel() cancels the goroutine's context.
StandaloneCancelSignal == CancelSignal

\* cancelSearch(): <-searchDone returns; searchCancel = nil; searchDone = nil.
StandaloneJoin == Join

\* Exit: defer respondRaw(`"Finished"`); return.
StandaloneExitFinished == ExitFinished

\* Interrupt with no search: respondRaw(`"Finished"`); continue.
StandaloneInterruptFinished == InterruptFinished

\* A fresh search goroutine, about to run respondRaw(`"Clear"`); pos is the
\* place of the range loop in allEntries, sr the entry it is appending.
StandaloneTask(query) ==
    [pc |-> "Clear", ctxDone |-> FALSE, done |-> FALSE, matched |-> <<>>,
     query |-> query, lowerQuery |-> <<>>, pos |-> 0, sr |-> <<>>]

\* Search: query := strings.TrimPrefix(*req.Search, "gp ");
\* ctx, cancel := context.WithCancel(...); searchCancel = cancel;
\* searchDone = done; go func(ctx, query) {...}.
StandaloneSpawn ==
    /\ pc = "Spawn"
    /\ tasks' = Append(tasks, StandaloneTask(TrimPrefix(cur.query, GpPrefix)))
    /\ searchCancel' = Len(tasks) + 1
    /\ searchDone' = Len(tasks) + 1
    /\ pc' = "Recv"
    /\ UNCHANGED <<cfgVars, gpVars, provider, readerVars, cur, wasSearching, id, entry, handled,
                   outAtStart, callsAtStart, aliveAtStart, lastResults, lockVars, outVars,
                   callVars>>

\* The goroutine: respondRaw(`"Clear"`);
\* lowerQuery := strings.ToLower(query); var matched []string.
StandaloneClear(t) ==
    /\ tasks[t].pc = "Clear"
    /\ outputMu = Free
    /\ out' = Append(out, RawLine(t, "Clear"))
    /\ tasks' = [tasks EXCEPT ![t].lowerQuery = ToLower(tasks[t].query),
                              ![t].pos = 1,
                              ![t].pc = "Range"]
    /\ UNCHANGED <<taskFrame, lastResults, lockVars, midLine, callVars>>

\* One turn of for _, e := range allEntries, up to the call of respond: the
\* slice is at its end (on to the publication after the loop);
\* ctx.Err() != nil (on to the publication of the early return); e matches
\* (on to respond) or does not (next turn).
StandaloneIter(t) ==
    /\ tasks[t].pc = "Range"
    /\ LET p == tasks[t].pos IN
       IF p > Len(allEntries)
       THEN tasks' = [tasks EXCEPT ![t].pc = "Publish"]
       ELSE IF tasks[t].ctxDone
       THEN tasks' = [tasks EXCEPT ![t].pc = "Publish"]
       ELSE IF Matches(allEntries[p].lower, tasks[t].lowerQuery)
       THEN tasks' = [tasks EXCEPT ![t].sr = allEntries[p].original,
                                   ![t].pc = "AppendData"]
       ELSE tasks' = [tasks EXCEPT ![t].pos = p + 1]
    /\ UNCHANGED <<taskFrame, lastResults, lockVars, outVars, callVars>>

\* respond(AppendResponse{...}): outputMu.Lock(), then os.Stdout.Write(data),
\* the marshalled Append line with ID: uint32(len(matched)).
StandaloneAppendData(t) ==
    /\ tasks[t].pc = "AppendData"
    /\ outputMu = Free
    /\ outputMu' = t
    /\ out' = Append(out, Line(t, "Append", AppendID(tasks[t].matched), tasks[t].sr))
    /\ midLine' = t
    /\ tasks' = [tasks EXCEPT ![t].pc = "AppendNL"]
    /\ UNCHANGED <<taskFrame, lastResults, resultsMu, callVars>>

\* respond: os.Stdout.Write("\n") and the deferred outputMu.Unlock(); then
\* matched = append(matched, e.original);
\* if len(matched) >= maxResults { break }.
StandaloneAppendNL(t) ==
    /\ tasks[t].pc = "AppendNL"
    /\ outputMu = t
    /\ midLine' = Free
    /\ outputMu' = Free
    /\ LET m == Append(tasks[t].matched, tasks[t].sr) IN
       tasks' = [tasks EXCEPT ![t].matched = m,
                              ![t].sr = <<>>,
                              ![t].pos = IF Len(m) >= maxResults THEN @ ELSE @ + 1,
                              ![t].pc = IF Len(m) >= maxResults THEN "Publish"
                                        ELSE "Range"]
    /\ UNCHANGED <<taskFrame, lastResults, resultsMu, out, callVars>>

\* resultsMu.Lock(); lastResults = matched; resultsMu.Unlock(): after the
\* loop, or before the return of a cancelled search.
StandalonePublish(t) ==
    /\ tasks[t].pc = "Publish"
    /\ resultsMu = Free
    /\ lastResults' = tasks[t].matched
    /\ tasks' = [tasks EXCEPT ![t].pc = "Finished"]
    /\ UNCHANGED <<taskFrame, lockVars, outVars, callVars>>

\* defer respondRaw(`"Finished"`)
StandaloneFinished(t) == TFinished(t)

\* defer close(done); the goroutine is gone and its locals with it.
StandaloneCloseDone(t) ==
    /\ tasks[t].pc = "CloseDone"
    /\ tasks' = [tasks EXCEPT ![t] = [StandaloneTask(tasks[t].query) EXCEPT
                                        !.pc = "Dead", !.done = TRUE,
                                        !.ctxDone = tasks[t].ctxDone]]
    /\ UNCHANGED <<taskFrame, lastResults, lockVars, outVars, callVars>>

\* Activate, id < len(lastResults): id := int(*req.Activate);
\* resultsMu.Lock(); entry := lastResults[id]; resultsMu.Unlock().
StandaloneActInRange == ActInRange

\* Activate, else branch: resultsMu.Unlock(); the index is logged as out of
\* range; on to respondRaw(`"Close"`).
StandaloneActOutOfRange == ActOutOfRange

\* Activate: gopass show -C entry runs and ends well or with an error, which
\* is logged.
StandaloneActCall == ActCall

\* Activate: respondRaw(`"Close"`).
StandaloneActClose == ActClose

StandaloneReader ==
    StandaloneReadLine \/ StandaloneSendLine \/ StandaloneReadEOF

StandaloneMain ==
    \/ StandaloneLoad
    \/ StandaloneRecvExit \/ StandaloneRecvInterrupt \/ StandaloneRecvBad
    \/ StandaloneRecvUnhandled
    \/ StandaloneRecvSearch \/ StandaloneRecvActivate \/ StandaloneRecvClosed
    \/ StandaloneCancelNone \/ StandaloneCancelSignal \/ StandaloneJoin
    \/ StandaloneExitFinished \/ StandaloneInterruptFinished
    \/ StandaloneSpawn
    \/ StandaloneActInRange \/ StandaloneActOutOfRange
    \/ StandaloneActCall \/ StandaloneActClose

StandaloneSearch(t) ==
    \/ StandaloneClear(t) \/ StandaloneIter(t)
    \/ StandaloneAppendData(t) \/ StandaloneAppendNL(t)
    \/ StandalonePublish(t) \/ StandaloneFinished(t) \/ StandaloneCloseDone(t)

NextStandalone ==
    \/ StandaloneReader
    \/ StandaloneMain
    \/ \E t \in 1..Len(tasks) : StandaloneSearch(t)

SpecStandalone == InitStandalone /\ [][NextStandalone]_vars

\* The Append lines search goroutine t has written.
StandaloneAppends(t) ==
    LET ByT(l) == l.by = t /\ l.kind = "Append" IN SelectSeq(out, ByT)

\* The stand-alone program never writes more than maxResults Append lines in
\* one search, and what it publishes are the names of those lines.
StandaloneAtMostMaxResults ==
    \A t \in 1..Len(tasks) :
        /\ Len(StandaloneAppends(t)) <= maxResults
        /\ tasks[t].pc = "Finished" =>
              lastResults = [i \in 1..Len(StandaloneAppends(t)) |->
                                StandaloneAppends(t)[i].name]

\* A turn of the stand-alone loop that begins with the context cancelled
\* appends nothing: a cancelled search writes at most the Append line it
\* was at.
StandaloneStopsOnCancel ==
    [][\A t \in 1..Len(tasks) :
          (tasks[t].pc = "Range" /\ tasks[t].ctxDone) =>
              tasks'[t].pc \in {"Range", "Publish"}]_vars

\* ------------------------------------------------------------ observations

\* The lines search task t has written, in order.
LinesOf(t) ==
    LET ByT(l) == l.by = t IN SelectSeq(out, ByT)

Kinds(lines) == [i \in 1..Len(lines) |-> lines[i].kind]

\* The lines written since the main loop took the command it is handling.
LinesSince == SubSeq(out, outAtStart + 1, Len(out))

\* Those of them the main loop wrote itself.
MainLinesSince ==
    LET ByMain(l) == l.by = MainThread IN SelectSeq(LinesSince, ByMain)

FinishedSince ==
    LET IsFinished(l) == l.kind = "Finished" IN SelectSeq(LinesSince, IsFinished)

\* The Append lines of search task t.
AppendsOf(t) ==
    LET IsAppend(l) == l.kind = "Append" IN SelectSeq(LinesOf(t), IsAppend)

\* The main loop is done with the command in cur: it waits for the next line,
\* or Run has returned.
Handled(type) == cur.type = type /\ pc \in {"Recv", "Returned"}

\* ------------------------------------------------------------------ claims

\* C1: the lines of one search task are Clear, then Append lines only, then
\* Finished as the last line; while the task runs they are a prefix of that,
\* and once the task has ended (provider returned nil or an error, cancelled
\* or not) the Clear and the closing Finished are both there.
C1_SearchSequence ==
    \A t \in 1..Len(tasks) :
        LET L == Kinds(LinesOf(t)) IN
        /\ \A i \in 1..Len(L) :
              /\ (L[i] = "Clear") <=> (i = 1)
              /\ (L[i] = "Finished") => (i = Len(L) /\ i > 1)
              /\ L[i] \in {"Clear", "Append", "Finished"}
        /\ tasks[t].pc \in {"CloseDone", "Dead"} =>
              (Len(L) >= 2 /\ L[1] = "Clear" /\ L[Len(L)] = "Finished")

\* C1 witness: a second search, cancelled while it ran, whose provider returned
\* an error after two results, has written Clear, Append, Append, Finished; the
\* search before it ended with its own Clear .. Finished.
C1_Witness ==
    /\ Len(tasks) = 2
    /\ tasks[2].pc = "CloseDone"
    /\ tasks[2].ctxDone
    /\ tasks[2].err
    /\ Kinds(LinesOf(2)) = <<"Clear", "Append", "Append", "Finished">>
    /\ Len(LinesOf(1)) >= 2

\* C2: at most one search task is alive, and every task but the newest has
\* been cancelled and has completed.
C2_SingleSearch ==
    /\ Cardinality(AliveTasks) <= 1
    /\ \A t \in 1..Len(tasks) :
          t < Len(tasks) => (tasks[t].done /\ tasks[t].ctxDone)
    /\ pc = "Spawn" => AliveTasks = {}

\* C2 witness: a Search was taken while the first task was alive, and the task
\* it started is alive now.
C2_Witness ==
    /\ Handled("Search")
    /\ aliveAtStart
    /\ Len(tasks) = 2
    /\ AliveTasks = {2}

\* C3: the lines of two searches never interleave: every line of the earlier
\* search is written before every line of the later one, and once the later
\* one has written its Clear the earlier one's last line is its Finished.
C3_NoInterleaving ==
    \A i, j \in 1..Len(out) :
        (out[i].by >= 1 /\ out[j].by > out[i].by) =>
            /\ i < j
            /\ LinesOf(out[i].by)[Len(LinesOf(out[i].by))].kind = "Finished"

\* C3 witness: two Search commands in a row, the second taken while the first
\* task was alive and had appended; both have written lines.
C3_Witness ==
    /\ handled = <<"Search", "Search">>
    /\ aliveAtStart
    /\ Len(AppendsOf(1)) >= 1
    /\ Len(LinesOf(2)) >= 2

\* C4: from the moment the main loop takes an Interrupt until it takes the
\* next command at most one Finished is written; with a provider that blocks
\* until it is cancelled, Search, Interrupt, Exit yields Clear, Finished,
\* Finished.
C4_InterruptOneFinished ==
    /\ cur.type = "Interrupt" => Len(FinishedSince) <= 1
    /\ (provider = "blocking" /\ handled = <<"Search", "Interrupt", "Exit">>
            /\ pc = "Returned") =>
          Kinds(out) = <<"Clear", "Finished", "Finished">>

\* C4 witness: Search, Interrupt, Exit with the blocking provider has run to
\* its end, and the Interrupt found the search task alive.
C4_Witness ==
    /\ provider = "blocking"
    /\ handled = <<"Search", "Interrupt", "Exit">>
    /\ pc = "Returned"
    /\ searchCalls = <<"q">>
    /\ out[2].by = 1

\* C5: an Interrupt handled when no Search was accepted since the start makes
\* the main loop write exactly one Finished and nothing else, and neither
\* callback has been invoked; Interrupt, Exit yields Finished, Finished.
C5_InterruptWithoutSearch ==
    /\ (cur.type = "Interrupt" /\ Len(tasks) = 0) =>
          /\ searchCalls = <<>>
          /\ activateCalls = <<>>
          /\ LinesSince = MainLinesSince
          /\ Kinds(LinesSince) =
                IF Handled("Interrupt") THEN <<"Finished">> ELSE <<>>
    /\ (handled = <<"Interrupt", "Exit">> /\ pc = "Returned") =>
          (Kinds(out) = <<"Finished", "Finished">> /\ callVars = <<<<>>, <<>>>>)

\* C5 witness: Interrupt, Exit has run to its end.
C5_Witness ==
    /\ handled = <<"Interrupt", "Exit">>
    /\ pc = "Returned"
    /\ Len(out) = 2

\* C6 as claimed: an Interrupt taken while no search task was alive makes the
\* main loop itself write exactly one Finished.  The code decides by
\* searchCancel != nil, which stays set after a search has ended on its own.
C6_InterruptIdleWritesFinished ==
    (Handled("Interrupt") /\ ~aliveAtStart) =>
        Kinds(MainLinesSince) = <<"Finished">>

\* C7: once Exit is taken the loop only cancels, joins, answers and returns;
\* its Finished is written with no search task alive, it is the one line the
\* main loop writes for Exit and the last line of the output; Exit is the last
\* command ever handled; Exit alone yields exactly one Finished.
C7_ExitTerminal ==
    /\ \A i \in 1..Len(handled) : handled[i] = "Exit" => i = Len(handled)
    /\ cur.type = "Exit" =>
          /\ pc \in {"Cancel", "Join", "ExitFinished", "Returned"}
          /\ pc \in {"ExitFinished", "Returned"} => AliveTasks = {}
          /\ pc # "Returned" => MainLinesSince = <<>>
          /\ pc = "Returned" =>
                /\ Kinds(MainLinesSince) = <<"Finished">>
                /\ out[Len(out)] = RawLine(MainThread, "Finished")
                /\ Len(activateCalls) = callsAtStart
    /\ (handled = <<"Exit">> /\ pc = "Returned") => Kinds(out) = <<"Finished">>

\* C7 witness: Exit found a search task alive, has joined it and answered, Run
\* has returned, and a later line sits unread in the channel.
C7_Witness ==
    /\ cur.type = "Exit"
    /\ pc = "Returned"
    /\ aliveAtStart
    /\ requests # <<>>
    /\ Len(LinesSince) >= 2

\* The index of the Activate being handled is below the number of Append
\* lines of the most recently accepted Search.
ActivateValid ==
    /\ cur.type = "Activate"
    /\ Len(tasks) >= 1
    /\ cur.index.hi = 0
    /\ cur.index.lo < Len(AppendsOf(Len(tasks)))

\* C8: for Activate(i) with i below the number of Append lines of the most
\* recently accepted Search, the handler is invoked exactly once, with the
\* name of that search's Append line whose id is i, and Close is written only
\* after the handler has returned.
C8_ActivateMapsIndex ==
    ActivateValid =>
        /\ pc # "Panic"
        /\ pc = "ActCall" =>
              (Len(activateCalls) = callsAtStart /\ MainLinesSince = <<>>)
        /\ pc = "ActClose" =>
              (Len(activateCalls) = callsAtStart + 1 /\ MainLinesSince = <<>>)
        /\ Handled("Activate") =>
              /\ Len(activateCalls) = callsAtStart + 1
              /\ \E k \in 1..Len(AppendsOf(Len(tasks))) :
                    /\ AppendsOf(Len(tasks))[k].id = cur.index
                    /\ AppendsOf(Len(tasks))[k].name =
                          activateCalls[Len(activateCalls)].entry
                    /\ \A m \in 1..Len(AppendsOf(Len(tasks))) :
                          AppendsOf(Len(tasks))[m].id = cur.index => m = k
              /\ Kinds(MainLinesSince) = <<"Close">>

\* C8 witness: the second of two searches was cancelled by Activate(1) after
\* two results, and the handler got the name of its second Append line.
C8_Witness ==
    /\ Handled("Activate")
    /\ cur.index = U32(0, 1)
    /\ aliveAtStart
    /\ Len(tasks) = 2
    /\ Len(AppendsOf(2)) = 2
    /\ activateCalls # <<>>
    /\ activateCalls[Len(activateCalls)].entry = "B2"

\* The index of the Activate being handled is at or beyond the end of the
\* Result Table, which no longer changes once cancelSearch() has returned.
ActivateOutOfRange ==
    /\ cur.type = "Activate"
    /\ pc \in {"ActCall", "ActClose", "Panic", "Recv", "Returned"}
    /\ ~(cur.index.hi = 0 /\ cur.index.lo < Len(lastResults))

\* C9: Activate(i) with i at or beyond the length of the Result Table, up to
\* the largest uint32, never invokes the handler, never reads the table, and
\* still writes Close.
C9_OutOfRangeActivate ==
    ActivateOutOfRange =>
        /\ pc \notin {"ActCall", "Panic"}
        /\ Len(activateCalls) = callsAtStart
        /\ Handled("Activate") => Kinds(MainLinesSince) = <<"Close">>

\* C9 witness: Activate(4294967295) against a table of two entries was
\* answered with Close.
C9_Witness ==
    /\ Handled("Activate")
    /\ cur.index = U32(Half - 1, Half - 1)
    /\ Len(lastResults) = 2
    /\ out[Len(out)] = RawLine(MainThread, "Close")

\* C10: every Activate makes the main loop write exactly one Close and no
\* other line, and it is written last: in range or not, handler error or not.
C10_ActivateAlwaysClose ==
    cur.type = "Activate" =>
        /\ pc # "Panic"
        /\ Kinds(MainLinesSince) = IF Handled("Activate") THEN <<"Close">> ELSE <<>>

\* C10 witness: the handler returned an error and Close was written.
C10_Witness ==
    /\ Handled("Activate")
    /\ Len(activateCalls) = callsAtStart + 1
    /\ activateCalls[Len(activateCalls)].err
    /\ out[Len(out)] = RawLine(MainThread, "Close")

\* The names carried by a sequence of lines.
NamesOf(lines) == [i \in 1..Len(lines) |-> lines[i].name]

\* C11: within one search the Append lines carry the ids 0, 1, 2, ... in the
\* order they are written, with no gap and no repeat, however many there are
\* and whether or not the search was cancelled; every new search starts
\* again at 0.
C11_AppendIdsDense ==
    \A t \in 1..Len(tasks) :
        \A k \in 1..Len(AppendsOf(t)) : AppendsOf(t)[k].id = ToUint32(k - 1)

\* A search cancelled after one result, followed by a search of the same
\* query that wrote two: both start at id 0.
C11_Witness ==
    /\ Len(tasks) = 2
    /\ tasks[1].ctxDone /\ tasks[1].done
    /\ tasks[1].query = tasks[2].query
    /\ Len(AppendsOf(1)) = 1
    /\ Len(AppendsOf(2)) = 2
    /\ AppendsOf(1)[1].id = U32(0, 0)
    /\ AppendsOf(2)[1].id = U32(0, 0)
    /\ AppendsOf(2)[2].id = U32(0, 1)

\* Search task t has written its Finished.
HasFinished(t) == \E i \in 1..Len(out) : out[i].by = t /\ out[i].kind = "Finished"

\* C12: once Run has returned, every Search the loop took from the input has
\* had its Finished written, whether the loop ended on Exit or on the input
\* being closed.
C12_FinishedBeforeReturn ==
    pc = "Returned" => \A t \in 1..Len(tasks) : HasFinished(t)

\* The step by which the main loop takes a line that does not decode, or that
\* decodes to no command it handles.
IgnoredStep ==
    /\ pc = "Recv"
    /\ handled' # handled
    /\ cur'.type \in {"Bad", "Unhandled"}

\* C13: handling a line that fails to decode, or that decodes to no handled
\* command, writes no reply, invokes no callback, cancels no search task,
\* leaves the Result Table as it is, and the loop waits for the next line.
C13_IgnoredLineNoEffect ==
    [][IgnoredStep =>
          /\ pc' = "Recv"
          /\ UNCHANGED <<out, midLine, searchCalls, activateCalls, tasks,
                         searchCancel, searchDone, lastResults>>]_vars

\* An undecodable line has been handled after an unhandled command while a
\* search task is alive and uncancelled and the Result Table is not empty.
C13_Witness ==
    /\ Handled("Bad")
    /\ \E i \in 1..Len(handled) : handled[i] = "Unhandled"
    /\ \E t \in AliveTasks : ~tasks[t].ctxDone
    /\ lastResults # <<>>
    /\ MainLinesSince = <<>>

\* The search tasks that have written the payload of a line and not yet its
\* newline.
MidWriters == {t \in 1..Len(tasks) : tasks[t].pc = "AppendNL"}

\* C14: writes to the output exclude one another: at most one thread is
\* between the payload and the newline of a line, it holds outputMu, and the
\* payload it wrote is still the last thing in the output, so no other line
\* has got between the payload and its newline.
C14_WritesExclusive ==
    /\ Cardinality(MidWriters) <= 1
    /\ \A t \in MidWriters : midLine = t
    /\ midLine # Free =>
          /\ midLine \in MidWriters
          /\ outputMu = midLine
          /\ out[Len(out)].by = midLine
          /\ out[Len(out)].kind = "Append"
    /\ outputMu # Free => outputMu = midLine

\* The second search task is between payload and newline of an Append, after
\* the main loop and the first task have written lines of their own.
C14_Witness ==
    /\ midLine = 2
    /\ outputMu = 2
    /\ LinesOf(1) # <<>>
    /\ LinesOf(MainThread) # <<>>

\* C15: Run with a Config whose OnSearch or OnActivate is missing logs an
\* "invalid launcher config" error and returns at once: no input line is
\* read, no reply line is written, no search task is started and no callback
\* is invoked.
C15_InvalidConfigReturns ==
    (~cfg.OnSearch \/ ~cfg.OnActivate) =>
        /\ pc \in {"Load", "Returned"}
        /\ pc = "Returned" =>
              loaded.err # "" /\ logged = "ERROR: invalid launcher config"
        /\ requests = <<>> /\ ~closed /\ handled = <<>>
        /\ out = <<>>
        /\ tasks = <<>>
        /\ searchCalls = <<>> /\ activateCalls = <<>>

\* Run has returned from a Config that has OnSearch but no OnActivate.
C15_Witness ==
    /\ cfg.OnSearch /\ ~cfg.OnActivate
    /\ pc = "Returned"
    /\ logged = "ERROR: invalid launcher config"
    /\ loaded.err = "config OnActivate callback is required"
    /\ out = <<>>

\* What LoadConfig hands back for a field the caller may have supplied: the
\* supplied value itself, or some value that is not nil.
SuppliedOrDefault(got, given) ==
    /\ got # "nil"
    /\ given # "nil" => got = given

\* C16: LoadConfig returns an error exactly when the Config is nil, OnSearch
\* is missing or OnActivate is missing, and the error names the first of the
\* three, in that order; otherwise it returns the supplied Logger, Stdin and
\* Stdout as they are, with a default that is not nil in place of each one
\* not supplied.
C16_LoadConfigContract ==
    pc = "Loaded" =>
        /\ loaded.err # "" <=> (cfg.isNil \/ ~cfg.OnSearch \/ ~cfg.OnActivate)
        /\ cfg.isNil => loaded.err = "config is nil"
        /\ (~cfg.isNil /\ ~cfg.OnSearch) =>
              loaded.err = "config OnSearch callback is required"
        /\ (~cfg.isNil /\ cfg.OnSearch /\ ~cfg.OnActivate) =>
              loaded.err = "config OnActivate callback is required"
        /\ loaded.err = "" =>
              /\ SuppliedOrDefault(loaded.l, cfg.Logger)
              /\ SuppliedOrDefault(loaded.stdin, cfg.Stdin)
              /\ SuppliedOrDefault(loaded.stdout, cfg.Stdout)

\* LoadConfig has returned for a Config that lacks both callbacks: the error
\* is the one about OnSearch.
C16_Witness ==
    /\ pc = "Loaded"
    /\ ~cfg.isNil /\ ~cfg.OnSearch /\ ~cfg.OnActivate
    /\ loaded.err = "config OnSearch callback is required"

\* The main loop is past cancelSearch() of the command in cur and has not yet
\* started anything new.
JoinReturned ==
    pc \in {"Spawn", "Activate", "ActCall", "ActClose", "ExitFinished",
            "InterruptFinished"}

\* C17: cancelSearch() returns only when the cancelled task is completely
\* done: a task whose done is closed has written its Finished and, being the
\* latest one, has its labels in lastResults; and past cancelSearch() no
\* task is left that has not closed done.
C17_JoinAfterPublishAndFinished ==
    /\ \A t \in 1..Len(tasks) : tasks[t].done => HasFinished(t)
    /\ (tasks # <<>> /\ tasks[Len(tasks)].done) =>
          lastResults = NamesOf(AppendsOf(Len(tasks)))
    /\ JoinReturned => \A t \in 1..Len(tasks) : tasks[t].done

\* An Activate found a search running, cancelled it and is past the join:
\* the task has one Append, its Finished and its label in lastResults.
C17_Witness ==
    /\ pc = "Activate"
    /\ aliveAtStart
    /\ Len(tasks) = 1
    /\ tasks[1].ctxDone /\ tasks[1].done
    /\ Len(AppendsOf(1)) = 1
    /\ lastResults = NamesOf(AppendsOf(1))
    /\ HasFinished(1)

\* The table holds, at index k - 1, the name of the Append line with id k - 1
\* among the given lines, and nothing else.
TableOf(lines) ==
    /\ Len(lastResults) = Len(lines)
    /\ \A k \in 1..Len(lastResults) :
          \E i \in 1..Len(lines) :
              lines[i].id = ToUint32(k - 1) /\ lines[i].name = lastResults[k]

\* C18: whenever no search task is alive, lastResults is exactly the names
\* of the Append lines of the search that ended last, in id order (empty
\* before any search): a search replaces the table in full, also by an empty
\* one, and a search that failed or was cancelled leaves what it had written.
C18_TableIsLastSearch ==
    AliveTasks = {} =>
        IF tasks = <<>> THEN lastResults = <<>>
        ELSE TableOf(AppendsOf(Len(tasks)))

\* A search with two results, then a search that ended without any:
\* the table is empty.
C18_Witness ==
    /\ AliveTasks = {}
    /\ Len(tasks) = 2
    /\ Len(AppendsOf(1)) = 2
    /\ AppendsOf(2) = <<>>
    /\ HasFinished(2)
    /\ lastResults = <<>>

\* The main loop is about to write a reply of its own.
MainReplying == pc \in {"ExitFinished", "InterruptFinished", "ActClose"}

\* C19: the main loop writes its replies (Close, the Finished of Exit, the
\* Finished of an Interrupt without a search) only while no search task is
\* alive: where it is about to write there is none, and every line of a
\* search task that precedes a line of the main loop in the output is
\* followed, still before that line, by the Finished of the same task.
C19_MainRepliesAfterSearches ==
    /\ MainReplying => AliveTasks = {}
    /\ \A i \in 1..Len(out) :
          out[i].by = MainThread =>
              \A j \in 1..(i - 1) :
                  out[j].by # MainThread =>
                      \E k \in j..(i - 1) :
                          out[k].by = out[j].by /\ out[k].kind = "Finished"

\* An Activate that found a search running is about to write Close: the
\* task's Clear, Append and Finished are in the output and the task is gone.
C19_Witness ==
    /\ pc = "ActClose"
    /\ aliveAtStart
    /\ AliveTasks = {}
    /\ Len(tasks) = 1
    /\ Kinds(LinesOf(1)) = <<"Clear", "Append", "Finished">>

\* Thread th holds neither resultsMu nor outputMu.
HoldsNoLock(th) == resultsMu # th /\ outputMu # th

\* C20: OnSearch and OnActivate are invoked only by a thread that holds
\* neither resultsMu nor outputMu (a search task about to call OnSearch, or
\* inside it between two appendResult calls; the main loop about to call
\* OnActivate), and on both paths of Activate resultsMu is released before
\* the callback or the Close.
C20_CallbacksWithoutLocks ==
    /\ \A t \in 1..Len(tasks) :
          tasks[t].pc \in {"CallOnSearch", "OnSearch"} => HoldsNoLock(t)
    /\ pc = "ActCall" => HoldsNoLock(MainThread)
    /\ pc = "ActClose" => HoldsNoLock(MainThread)

\* After a search and an Activate that called the handler, an out of range
\* Activate is about to write Close, with both locks free.
C20_Witness ==
    /\ pc = "ActClose"
    /\ ~InRange(id, lastResults)
    /\ HoldsNoLock(MainThread)
    /\ searchCalls # <<>>
    /\ activateCalls # <<>>
    /\ Len(activateCalls) = callsAtStart

\* The main loop is inside the Activate case, past cancelSearch().
InActivate == pc \in {"Activate", "ActCall", "ActClose"}

\* C21: Activate only reads lastResults: no step taken while the main loop
\* is inside the Activate case changes it, and it changes only while a
\* search task is alive, so Activate commands with no Search between them
\* see one and the same table.
C21_ActivateReadsOnly ==
    [][(InActivate \/ AliveTasks = {}) => lastResults' = lastResults]_vars

\* Two Activate commands for index 0 after one search: the handler got the
\* same label twice and the table is as the search left it.
C21_Witness ==
    /\ handled = <<"Search", "Activate", "Activate">>
    /\ Handled("Activate")
    /\ Len(activateCalls) = 2
    /\ activateCalls[1].entry = activateCalls[2].entry
    /\ Len(lastResults) = 2
    /\ lastResults = NamesOf(AppendsOf(1))

\* The main loop waits in cancelSearch() for a task whose provider never
\* returns.
StuckInJoin ==
    /\ pc = "Join"
    /\ provider = "stuck"
    /\ tasks[searchDone].pc = "OnSearch"

\* C23: when the provider of the running search never returns, the next
\* Search, Interrupt, Activate or Exit blocks the main loop for good: from
\* the join on it stays in the join, handles no further command, writes no
\* further reply and invokes no handler, and the task is never ended.
C23_StuckProviderBlocksLoop ==
    [][StuckInJoin =>
          /\ StuckInJoin'
          /\ UNCHANGED <<cur, handled, out, activateCalls, searchCancel,
                         searchDone>>
          /\ ~tasks'[searchDone].done]_vars

\* An Interrupt waits for a stuck search while a further line is queued and
\* the input is closed: the search has written only its Clear.
C23_Witness ==
    /\ StuckInJoin
    /\ cur.type = "Interrupt"
    /\ tasks[searchDone].ctxDone
    /\ requests # <<>>
    /\ closed
    /\ Kinds(out) = <<"Clear">>

\* Run returned because the input ended, not on an Exit.
ReturnedOnEOF ==
    /\ pc = "Returned"
    /\ loaded.err = ""
    /\ handled = <<>> \/ handled[Len(handled)] # "Exit"

\* The lines are handled in the order they were read: the commands taken so
\* far are those of the first lines scanned, one for one and in that order,
\* the command in hand is that of the last of them, and the lines scanned
\* since wait in the order they were scanned, in the channel and, the last
\* of them, with the reader that has yet to send it.
InInputOrder ==
    /\ Len(scanned) = Len(handled) + Len(requests) + Len(sending)
    /\ \A i \in 1..Len(handled) : handled[i] = Decode(scanned[i]).type
    /\ handled # <<>> => cur = Decode(scanned[Len(handled)])
    /\ requests \o sending = SubSeq(scanned, Len(handled) + 1, Len(scanned))

\* C22: with goroutines scheduled fairly, a provider that returns once it is
\* cancelled or out of results and a handler that returns, Run terminates
\* on every finite input: the main loop holds neither lock while it cancels
\* and waits for a search task, the lines are handled in the order they
\* were read, a return on the end of input comes only after every line read
\* has been handled, and Run does return in the end.
C22_RunTerminates ==
    /\ [](pc \in {"Cancel", "Join"} => HoldsNoLock(MainThread))
    /\ []InInputOrder
    /\ [](ReturnedOnEOF =>
            /\ requests = <<>> /\ sending = <<>> /\ closed
            /\ Len(handled) = Len(scanned))
    /\ (provider # "stuck" => <>[](pc = "Returned"))

\* Run has returned on an Exit that found the second of two searches
\* running, with a provider that waits for its cancellation.
C22_Witness ==
    /\ pc = "Returned"
    /\ provider = "blocking"
    /\ scanned = <<LSearch, LSearch, LExit>>
    /\ handled = <<"Search", "Search", "Exit">>
    /\ requests = <<>>
    /\ aliveAtStart
    /\ AliveTasks = {}
    /\ HoldsNoLock(MainThread)

\* C24: the gopass provider looks at the cancellation at least once per
\* result: once the context is cancelled it hands at most one further result
\* to appendResult, whatever the store and the query, and a return with
\* ctx.Err() comes only after a cancellation.
C24_OneResultAfterCancel ==
    /\ ctxErr => Len(results) <= resultsAtCancel + 1
    /\ gpPc = "ReturnedCtxErr" => ctxErr

\* The context was cancelled before the provider appended anything; the
\* query names an entry, which was still appended, and the provider then
\* returned ctx.Err() with nothing from the loop.
C24_Witness ==
    /\ gpPc = "ReturnedCtxErr"
    /\ ctxErr
    /\ resultsAtCancel = 0
    /\ lowerQuery \in DOMAIN allEntries
    /\ results = <<allEntries[lowerQuery]>>
    /\ count = 0

\* C25: one search of the gopass provider hands at most maxResults results
\* to appendResult, whatever the store and the query.
C25_AtMostMaxResults == Len(results) <= maxResults

\* The entries the provider searches: the names kept in allEntries.
EntryNames == {allEntries[k] : k \in DOMAIN allEntries}

\* The query as the provider compares it: without a leading "gp " and in
\* lower case.
SearchedFor == ToLower(TrimPrefix(gpQuery, GpPrefix))

\* The provider is past its exact-match lookup.
PastExact ==
    gpPc \in {"Range", "Append", "AfterLoop", "ReturnedNil", "ReturnedCtxErr"}

\* C26: when the query, without a leading "gp " and lower-cased, is the
\* lower-cased name of an entry, that entry is the first result and comes
\* once only; every other result is an entry whose lower-cased name contains
\* the lower-cased query; and with an empty query a search that ran to its
\* end over a store of at most maxResults entries has appended every entry.
C26_ExactFirstOthersContain ==
    PastExact =>
        /\ SearchedFor \in DOMAIN allEntries =>
              /\ results # <<>>
              /\ results[1] = allEntries[SearchedFor]
              /\ ToLower(results[1]) = SearchedFor
              /\ \A i \in 2..Len(results) : results[i] # results[1]
        /\ \A i \in 1..Len(results) :
              /\ results[i] \in EntryNames
              /\ Contains(ToLower(results[i]), SearchedFor)
        /\ (/\ SearchedFor = <<>>
            /\ gpPc = "ReturnedNil"
            /\ Cardinality(EntryNames) <= maxResults) =>
              {results[i] : i \in 1..Len(results)} = EntryNames

\* The query "gp A" against the store gp a, A, gp: the entry A came first,
\* then gp a, and the provider returned nil.
C26_Witness ==
    /\ gpPc = "ReturnedNil"
    /\ gpQuery = <<"g", "p", " ", "A">>
    /\ results = <<<<"A">>, <<"g", "p", " ", "a">>>>
    /\ ~ctxErr

====
